---- MODULE Spec2Model ----
(***************************************************************************)
(* VitalBalance: the AI analysis gateway (services/geminiService.ts), the  *)
(* application store and its localStorage persistence (App.tsx, mounted    *)
(* by index.tsx inside React.StrictMode and an ErrorBoundary) and the      *)
(* camera capture flow of the defensive FoodLens (components/Dashboard.tsx)*)
(*                                                                         *)
(* Text is a sequence of symbols.  A symbol is one character, except that  *)
(* a word whose letters the code never looks at separately (json, true,    *)
(* null, a key such as calories) is one symbol.  JavaScript values are     *)
(* tagged records: [t |-> "number", v |-> 3], [t |-> "array", v |-> <<>>]. *)
(***************************************************************************)
EXTENDS Integers, Sequences, FiniteSets, TLC

\* ------------------------------------------------------------------ text

Ws == " "
\* the backquote character (SANY reads no backquote inside a string)
BT == "bq"
Quote == "\""
Digits == {"0", "1", "2", "3", "4", "5", "6", "7", "8", "9"}

DigitVal(d) ==
  CASE d = "0" -> 0 [] d = "1" -> 1 [] d = "2" -> 2 [] d = "3" -> 3
    [] d = "4" -> 4 [] d = "5" -> 5 [] d = "6" -> 6 [] d = "7" -> 7
    [] d = "8" -> 8 [] d = "9" -> 9

DigitOf(n) ==
  CASE n = 0 -> "0" [] n = 1 -> "1" [] n = 2 -> "2" [] n = 3 -> "3"
    [] n = 4 -> "4" [] n = 5 -> "5" [] n = 6 -> "6" [] n = 7 -> "7"
    [] n = 8 -> "8" [] n = 9 -> "9"

\* Number.prototype.toString of a non-negative integer
RECURSIVE NumToText(_)
NumToText(n) ==
  IF n < 10 THEN <<DigitOf(n)>>
  ELSE Append(NumToText(n \div 10), DigitOf(n % 10))

RECURSIVE TextToNum(_, _)
TextToNum(s, acc) ==
  IF s = <<>> THEN acc ELSE TextToNum(Tail(s), 10 * acc + DigitVal(Head(s)))

Min(S) == CHOOSE x \in S : \A y \in S : x <= y
Max(S) == CHOOSE x \in S : \A y \in S : y <= x

\* String.prototype.indexOf / lastIndexOf of a one-symbol needle, 1-based,
\* 0 for "not found" (JavaScript: 0-based, -1)
IndexFrom(s, c, i) ==
  LET found == {j \in i..Len(s) : s[j] = c}
  IN IF found = {} THEN 0 ELSE Min(found)

IndexOf(s, c) == IndexFrom(s, c, 1)

LastIndexFrom(s, c, i) ==
  LET found == {j \in 1..i : s[j] = c}
  IN IF found = {} THEN 0 ELSE Max(found)

LastIndexOf(s, c) == LastIndexFrom(s, c, Len(s))

\* first position >= i that holds no whitespace (Len(s) + 1 when none)
SkipWs(s, i) ==
  Min({j \in i..Len(s) : s[j] /= Ws} \cup {Max({i, Len(s) + 1})})

\* last position <= i that holds no whitespace (0 when none)
SkipWsBack(s, i) ==
  Max({j \in 1..i : s[j] /= Ws} \cup {Min({i, 0})})

\* a trim that takes nothing off
Untrimmed(s) == s

\* String.prototype.trim
Trim(s) == SubSeq(s, SkipWs(s, 1), SkipWsBack(s, Len(s)))

\* s without the positions in dropped
Without(s, dropped) ==
  LET marked == [i \in 1..Len(s) |-> [c |-> s[i], drop |-> i \in dropped]]
      kept == SelectSeq(marked, LAMBDA x : ~x.drop)
  IN [i \in 1..Len(kept) |-> kept[i].c]

IsFenceAt(s, i) ==
  /\ i + 2 <= Len(s)
  /\ s[i] = BT /\ s[i + 1] = BT /\ s[i + 2] = BT

\* text.replace(/```json\s*/g, ""): a match starts wherever three backquotes
\* and json stand in a row (no two matches overlap) and runs over the
\* whitespace after them
StripJsonFences(s) ==
  LET starts == {p \in 1..Len(s) :
                   IsFenceAt(s, p) /\ p + 3 <= Len(s) /\ s[p + 3] = "json"}
  IN Without(s, UNION {p..(SkipWs(s, p + 4) - 1) : p \in starts})

\* text.replace(/```\s*/g, ""): of a run of backquotes the matches take
\* three after three from its start; the last one runs over the whitespace
\* after the run when it ends the run
StripFences(s) ==
  LET ticks == {i \in 1..Len(s) : s[i] = BT}
      runs == {i \in ticks : i = 1 \/ s[i - 1] /= BT}
      RunLen(r) == Min({j \in r..Len(s) : s[j] /= BT} \cup {Len(s) + 1}) - r
      Matched(r) == 3 * (RunLen(r) \div 3)
      RunEnd(r) == IF Matched(r) > 0 /\ Matched(r) = RunLen(r)
                   THEN SkipWs(s, r + Matched(r)) - 1
                   ELSE r + Matched(r) - 1
  IN Without(s, UNION {r..RunEnd(r) : r \in runs})

\* the span from the first "{" to the last "}", when there is one
BraceSpan(clean) ==
  LET firstOpen == IndexOf(clean, "{")
      lastClose == LastIndexOf(clean, "}")
  IN IF firstOpen /= 0 /\ lastClose /= 0 /\ lastClose > firstOpen
     THEN SubSeq(clean, firstOpen, lastClose)
     ELSE clean

cleanJson(text) ==
  IF text = <<>> THEN <<>>
  ELSE Trim(BraceSpan(StripFences(StripJsonFences(text))))

\* ------------------------------------------------------ JavaScript values

JUndef == [t |-> "undefined"]
JNull == [t |-> "null"]
JBool(b) == [t |-> "boolean", v |-> b]
JNum(n) == [t |-> "number", v |-> n]
JStr(s) == [t |-> "string", v |-> s]
JArr(items) == [t |-> "array", v |-> items]
\* an object: its own properties in insertion order, each [k |-> key, v |-> value]
JObj(props) == [t |-> "object", v |-> props]

Key(word) == <<word>>
Prop(word, val) == [k |-> Key(word), v |-> val]

RECURSIVE PropIndex(_, _, _)
PropIndex(props, key, i) ==
  IF i > Len(props) THEN 0
  ELSE IF props[i].k = key THEN i
  ELSE PropIndex(props, key, i + 1)

\* obj[key] = val: a key already present keeps its place
SetProp(props, key, val) ==
  LET i == PropIndex(props, key, 1)
  IN IF i = 0 THEN Append(props, [k |-> key, v |-> val])
     ELSE [props EXCEPT ![i] = [k |-> key, v |-> val]]

\* data.key where data is not null or undefined; a number, a boolean, a
\* string or an array has none of the properties the code reads
Get(data, word) ==
  IF data.t = "object"
  THEN LET i == PropIndex(data.v, Key(word), 1)
       IN IF i = 0 THEN JUndef ELSE data.v[i].v
  ELSE JUndef

\* reading a property of null or undefined throws a TypeError
Nullish(data) == data.t \in {"null", "undefined"}

\* deep equality of two values
RECURSIVE JEq(_, _)
JEq(a, b) ==
  IF a.t /= b.t THEN FALSE
  ELSE CASE a.t \in {"undefined", "null"} -> TRUE
         [] a.t \in {"boolean", "number", "string"} -> a.v = b.v
         [] a.t = "array" ->
              /\ Len(a.v) = Len(b.v)
              /\ \A i \in 1..Len(a.v) : JEq(a.v[i], b.v[i])
         [] a.t = "object" ->
              /\ Len(a.v) = Len(b.v)
              /\ \A i \in 1..Len(a.v) :
                   a.v[i].k = b.v[i].k /\ JEq(a.v[i].v, b.v[i].v)

\* ------------------------------------------------------------ JSON.parse

\* the result of parsing one value: ok, the value, the position after it
ParseFail == [ok |-> FALSE, val |-> JUndef, pos |-> 0]
Parsed(val, pos) == [ok |-> TRUE, val |-> val, pos |-> pos]

\* a string: from the quote at i to the next quote (the model's text has no
\* backslash, so no escape)
ParseString(s, i) ==
  LET j == IndexFrom(s, Quote, i + 1)
  IN IF j = 0 THEN ParseFail ELSE Parsed(JStr(SubSeq(s, i + 1, j - 1)), j + 1)

RECURSIVE DigitsEnd(_, _)
DigitsEnd(s, i) ==
  IF i <= Len(s) /\ s[i] \in Digits THEN DigitsEnd(s, i + 1) ELSE i

\* a number: digits, with no leading zero before another digit
ParseNumber(s, i) ==
  LET e == DigitsEnd(s, i)
  IN IF s[i] = "0" /\ e > i + 1 THEN Parsed(JNum(0), i + 1)
     ELSE Parsed(JNum(TextToNum(SubSeq(s, i, e - 1), 0)), e)

RECURSIVE ParseValue(_, _)
RECURSIVE ParseMembers(_, _, _)
RECURSIVE ParseElements(_, _, _)

\* the members of an object from position i (whitespace skipped), after "{"
\* or ","; a repeated key keeps its first place and takes the last value
ParseMembers(s, i, acc) ==
  IF i > Len(s) \/ s[i] /= Quote THEN ParseFail
  ELSE LET key == ParseString(s, i)
       IN IF ~key.ok THEN ParseFail
          ELSE LET c == SkipWs(s, key.pos)
               IN IF c > Len(s) \/ s[c] /= ":" THEN ParseFail
                  ELSE LET val == ParseValue(s, SkipWs(s, c + 1))
                       IN IF ~val.ok THEN ParseFail
                          ELSE LET d == SkipWs(s, val.pos)
                                   acc2 == SetProp(acc, key.val.v, val.val)
                               IN IF d > Len(s) THEN ParseFail
                                  ELSE IF s[d] = "}" THEN Parsed(JObj(acc2), d + 1)
                                  ELSE IF s[d] = ","
                                       THEN ParseMembers(s, SkipWs(s, d + 1), acc2)
                                       ELSE ParseFail

ParseElements(s, i, acc) ==
  LET val == ParseValue(s, i)
  IN IF ~val.ok THEN ParseFail
     ELSE LET d == SkipWs(s, val.pos)
              acc2 == Append(acc, val.val)
          IN IF d > Len(s) THEN ParseFail
             ELSE IF s[d] = "]" THEN Parsed(JArr(acc2), d + 1)
             ELSE IF s[d] = "," THEN ParseElements(s, SkipWs(s, d + 1), acc2)
             ELSE ParseFail

ParseValue(s, i) ==
  IF i > Len(s) THEN ParseFail
  ELSE CASE s[i] = "{" ->
              LET j == SkipWs(s, i + 1)
              IN IF j <= Len(s) /\ s[j] = "}" THEN Parsed(JObj(<<>>), j + 1)
                 ELSE ParseMembers(s, j, <<>>)
         [] s[i] = "[" ->
              LET j == SkipWs(s, i + 1)
              IN IF j <= Len(s) /\ s[j] = "]" THEN Parsed(JArr(<<>>), j + 1)
                 ELSE ParseElements(s, j, <<>>)
         [] s[i] = Quote -> ParseString(s, i)
         [] s[i] \in Digits -> ParseNumber(s, i)
         [] s[i] = "true" -> Parsed(JBool(TRUE), i + 1)
         [] s[i] = "false" -> Parsed(JBool(FALSE), i + 1)
         [] s[i] = "null" -> Parsed(JNull, i + 1)
         [] OTHER -> ParseFail

\* JSON.parse(text): [ok |-> FALSE] stands for the SyntaxError it throws
JSONParse(text) ==
  LET r == ParseValue(text, SkipWs(text, 1))
  IN IF r.ok /\ SkipWs(text, r.pos) = Len(text) + 1
     THEN [ok |-> TRUE, val |-> r.val]
     ELSE [ok |-> FALSE, val |-> JUndef]

\* -------------------------------------------------------- JSON.stringify

RECURSIVE Stringify(_)
RECURSIVE StringifyItems(_, _)
RECURSIVE StringifyProps(_, _, _)

\* the elements of an array from index i; undefined is written as null
StringifyItems(items, i) ==
  IF i > Len(items) THEN <<>>
  ELSE (IF i > 1 THEN <<",">> ELSE <<>>)
       \o (IF items[i].t = "undefined" THEN <<"null">> ELSE Stringify(items[i]))
       \o StringifyItems(items, i + 1)

\* the properties of an object from index i; a property whose value is
\* undefined is left out
StringifyProps(props, i, first) ==
  IF i > Len(props) THEN <<>>
  ELSE IF props[i].v.t = "undefined" THEN StringifyProps(props, i + 1, first)
  ELSE (IF first THEN <<>> ELSE <<",">>)
       \o <<Quote>> \o props[i].k \o <<Quote, ":">>
       \o Stringify(props[i].v)
       \o StringifyProps(props, i + 1, FALSE)

\* JSON.stringify(value) of a value that is not undefined
Stringify(val) ==
  CASE val.t = "null" -> <<"null">>
    [] val.t = "boolean" -> IF val.v THEN <<"true">> ELSE <<"false">>
    [] val.t = "number" -> NumToText(val.v)
    [] val.t = "string" -> <<Quote>> \o val.v \o <<Quote>>
    [] val.t = "array" -> <<"[">> \o StringifyItems(val.v, 1) \o <<"]">>
    [] val.t = "object" -> <<"{">> \o StringifyProps(val.v, 1, TRUE) \o <<"}">>

\* ---------------------------------------------------------------- state

VARIABLES
  now,        \* Date.now(): the millisecond clock
  apiKey,     \* whether process.env.API_KEY is set in this build
  aiClient,   \* geminiService's module-level client: "null" or "client"
  gwPc,       \* the gateway call under study: "idle", "awaiting", "settled"
  gwOp,       \* its operation: "image", "text", "recipe" ("none" when idle)
  gwSrc,      \* how the endpoint built the response it gave (see Sources)
  gwOut,      \* what the operation's promise settled with
  storage,    \* localStorage: key -> [present, text]
  strictDev,  \* a development build: StrictMode runs mount effects twice
  appPc,      \* "boot", "effects", "flush", "running", "crashed"
  effStep,    \* while appPc = "effects": the next mount effect to run
  queued,     \* state updates the mount effects have queued: key -> [set, val]
  foodLogs,   \* App state
  recipes,    \* App state
  vitals,     \* App state
  view,       \* App state: the current AppView
  hasError,   \* ErrorBoundary state
  jbLoading,  \* JuiceBar state
  jbError,    \* JuiceBar state: "null" or the message
  generatedRecipe, \* JuiceBar state: null or the generated recipe
  expandedId, \* JuiceBar state: null or the id of the recipe shown in full
  jbPending,  \* the mounted JuiceBar's generateJuiceRecipe call: "none",
              \* "request" (awaiting the endpoint), "rejected" (no client)
  vtType,     \* VitalsTracker state: "bp" or "sugar"
  fresh,      \* no user action since this session's startup began
  prevEnd,    \* while fresh: the collections the previous session ended with
  bootStorage,\* while fresh: localStorage as this session found it
  lastOp,     \* the handler that ran last and its arguments
  mode,       \* FoodLens state: "view", "scan", "text"
  loading,    \* FoodLens state
  error,      \* FoodLens state: "null" or the message
  query,      \* FoodLens state: the text typed
  stream,     \* FoodLens state: 0 for null, or the MediaStream held
  streams,    \* the camera: stream -> "none", "live", "stopped"
  ops         \* FoodLens's async functions suspended at an await

clientVars == <<apiKey, aiClient>>
gwCallVars == <<gwPc, gwOp, gwSrc, gwOut>>
gwVars == <<clientVars, gwCallVars>>
appVars == <<storage, strictDev, appPc, effStep, queued, foodLogs, recipes,
             vitals, view, hasError>>
jbVars == <<jbLoading, jbError, generatedRecipe, expandedId, jbPending>>
ghostVars == <<fresh, prevEnd, bootStorage>>
lensVars == <<mode, loading, error, query, stream, streams, ops>>

vars == <<now, gwVars, appVars, jbVars, vtType, ghostVars, lastOp, lensVars>>

\* what the gateway alone leaves as it is
uiVars == <<appVars, jbVars, vtType, ghostVars, lastOp, lensVars>>

\* ------------------------------------------------------------- bounds

\* the clock runs from 1 to MaxClock
MaxClock == 2
\* the longest food name the endpoint answers with
MaxNameLen == 3
\* the longest prose the endpoint puts before or after the JSON object
MaxProseLen == 1

\* the streams the camera hands out
MaxStreams == 2
\* the async functions of FoodLens suspended at the same time
MaxOps == 2
\* the food logs a run of the capture flow adds
MaxLensLogs == 1

\* every sequence over alphabet of length 0..n
SeqsUpTo(alphabet, n) == UNION {[1..k -> alphabet] : k \in 0..n}

\* -------------------------------------------------- the AI analysis gateway

\* an outcome of a promise
Resolved(val) == [kind |-> "resolve", val |-> val, err |-> "none"]
Rejected(err) == [kind |-> "reject", val |-> JUndef, err |-> err]
NoOutcome == [kind |-> "none", val |-> JUndef, err |-> "none"]

\* getAiClient: the client is built on first use; the library's constructor
\* throws in a browser when no API key is given, and aiClient stays null
ClientAfterGet(client, key) ==
  IF client = "null" THEN (IF key THEN "client" ELSE "null") ELSE client

\* a getAiClient that never throws
GetClientNeverThrows(client, key) == FALSE

GetClientThrows(client, key) == client = "null" /\ ~key

\* analyzeFoodImage from the response on (response.text || ""): resp is
\* [failed |-> the request was rejected, text |-> the response's text]
analyzeFoodImage(resp) ==
  IF resp.failed THEN Rejected("endpoint error")
  ELSE LET text == cleanJson(resp.text)
       IN IF text = <<>> THEN Rejected("Empty response from AI")
          ELSE LET parsed == JSONParse(text)
                   data == parsed.val
               IN IF ~parsed.ok THEN Rejected("SyntaxError")
                  ELSE IF Nullish(data) THEN Rejected("TypeError")
                  ELSE Resolved(JObj(<<
                         Prop("name", Get(data, "name")),
                         Prop("macros", JObj(<<
                           Prop("calories", Get(data, "calories")),
                           Prop("protein", Get(data, "protein")),
                           Prop("carbs", Get(data, "carbs")),
                           Prop("fat", Get(data, "fat")),
                           Prop("sugar", Get(data, "sugar")),
                           Prop("sodium", Get(data, "sodium"))>>))>>))

analyzeFoodText(resp) ==
  IF resp.failed THEN Rejected("endpoint error")
  ELSE LET text == cleanJson(resp.text)
       IN IF text = <<>> THEN Rejected("Empty response from AI")
          ELSE LET parsed == JSONParse(text)
                   data == parsed.val
               IN IF ~parsed.ok THEN Rejected("SyntaxError")
                  ELSE IF Nullish(data) THEN Rejected("TypeError")
                  ELSE Resolved(JObj(<<
                         Prop("name", Get(data, "name")),
                         Prop("macros", JObj(<<
                           Prop("calories", Get(data, "calories")),
                           Prop("protein", Get(data, "protein")),
                           Prop("carbs", Get(data, "carbs")),
                           Prop("fat", Get(data, "fat")),
                           Prop("sugar", Get(data, "sugar")),
                           Prop("sodium", Get(data, "sodium"))>>))>>))

RecipeError == "Failed to parse recipe from AI. Please try again."

\* generateJuiceRecipe from the response on; clock is Date.now() then
generateJuiceRecipe(resp, clock) ==
  IF resp.failed THEN Rejected(RecipeError)
  ELSE LET text == cleanJson(resp.text)
       IN IF text = <<>> THEN Rejected(RecipeError)
          ELSE LET parsed == JSONParse(text)
                   data == parsed.val
               IN IF ~parsed.ok THEN Rejected(RecipeError)
                  ELSE IF Nullish(data) THEN Rejected(RecipeError)
                  ELSE Resolved(JObj(<<
                         Prop("id", JStr(NumToText(clock))),
                         Prop("name", Get(data, "name")),
                         Prop("description", Get(data, "description")),
                         Prop("ingredients", Get(data, "ingredients")),
                         Prop("instructions", Get(data, "instructions")),
                         Prop("benefits", Get(data, "benefits")),
                         Prop("macrosEstimate", Get(data, "macrosEstimate"))>>))

\* ------------------------------------------- what the endpoint answers with

NameAlphabet == {"a", Ws, BT, "{", "}"}
ProseAlphabet == {"a", Ws, "{", "}"}
FoodNames == SeqsUpTo(NameAlphabet, MaxNameLen)
Prose == SeqsUpTo(ProseAlphabet, MaxProseLen)
MacroTuples == {<<350, 15, 30, 20, 2, 400>>, <<1, 2, 3, 4, 5, 6>>}
FenceOpens == {<<>>, <<BT, BT, BT, "json", Ws>>, <<BT, BT, BT, Ws>>}
FenceCloses == {<<>>, <<Ws, BT, BT, BT>>}

MacroProps(m) ==
  <<Prop("calories", JNum(m[1])), Prop("protein", JNum(m[2])),
    Prop("carbs", JNum(m[3])), Prop("fat", JNum(m[4])),
    Prop("sugar", JNum(m[5])), Prop("sodium", JNum(m[6]))>>

\* an object that conforms to FOOD_IDENTIFICATION_SCHEMA
FoodObject(name, m) == JObj(<<Prop("name", JStr(name))>> \o MacroProps(m))

\* an object that conforms to generateJuiceRecipe's responseSchema
RecipeObject(name, m) ==
  JObj(<<Prop("name", JStr(name)),
         Prop("description", JStr(<<"a", Ws, "a">>)),
         Prop("ingredients", JArr(<<JStr(<<"a">>), JStr(<<"a", "a">>)>>)),
         Prop("instructions", JArr(<<JStr(<<"a">>)>>)),
         Prop("benefits", JArr(<<JStr(<<"a">>)>>)),
         Prop("macrosEstimate", JObj(MacroProps(m)))>>)

WithoutProp(obj, i) ==
  JObj(SubSeq(obj.v, 1, i - 1) \o SubSeq(obj.v, i + 1, Len(obj.v)))

WithProp(obj, i, val) ==
  JObj([obj.v EXCEPT ![i] = [k |-> obj.v[i].k, v |-> val]])

ExampleName == <<"a">>
ExampleMacros == <<350, 15, 30, 20, 2, 400>>

\* a response: its class, its text (pre, body, suf in a row) and, of a food
\* or recipe response, the name and the macros of the object in it
Source(class, pre, body, suf, name, m) ==
  [class |-> class, text |-> pre \o body \o suf, pre |-> pre, suf |-> suf,
   name |-> name, macros |-> m]

NoMacros == <<0, 0, 0, 0, 0, 0>>

PlainFoodSources ==
  {Source("food", <<>>, Stringify(FoodObject(n, m)), <<>>, n, m) :
     n \in FoodNames, m \in MacroTuples}

WrappedFoodSources ==
  {Source("food", w[1] \o w[2],
          Stringify(FoodObject(ExampleName, ExampleMacros)),
          w[3] \o w[4], ExampleName, ExampleMacros) :
     w \in Prose \X FenceOpens \X FenceCloses \X Prose}

\* JSON objects that violate the food schema: a required field absent, or
\* of the wrong type
ViolatingFoodSources ==
  LET obj == FoodObject(ExampleName, ExampleMacros)
  IN {Source("foodViolating", <<>>, Stringify(WithoutProp(obj, i)), <<>>,
             ExampleName, ExampleMacros) : i \in 1..7}
     \cup {Source("foodViolating", <<>>, Stringify(WithProp(obj, i, JStr(<<"a">>))),
                  <<>>, ExampleName, ExampleMacros) : i \in 2..7}
     \cup {Source("foodViolating", <<>>, Stringify(WithProp(obj, 1, JNum(1))),
                  <<>>, ExampleName, ExampleMacros),
           Source("foodViolating", <<>>, <<"{", "}">>, <<>>,
                  ExampleName, ExampleMacros)}

RecipeSources ==
  LET obj == RecipeObject(ExampleName, ExampleMacros)
  IN {Source("recipe", w[1], Stringify(obj), w[2], ExampleName, ExampleMacros) :
        w \in FenceOpens \X FenceCloses}
     \cup {Source("recipeViolating", <<>>, Stringify(WithoutProp(obj, i)), <<>>,
                  ExampleName, ExampleMacros) : i \in 1..6}

\* texts that are no JSON object: empty, other JSON values, prose
RawBodies ==
  {<<>>, <<Ws>>, <<"4", "2">>, <<Quote, "a", Quote>>, <<"true">>, <<"null">>,
   <<"[", "1", "]">>, <<"[", "]">>, <<"a">>, <<"a", Ws, "a">>, <<"{">>,
   <<"}", "{">>, <<BT, BT, BT, "json", Ws, BT, BT, BT>>}

RawSources ==
  {Source("raw", <<>>, b, <<>>, <<>>, NoMacros) : b \in RawBodies}

\* the request was rejected: a network or endpoint error
FailedSource == Source("failed", <<>>, <<>>, <<>>, <<>>, NoMacros)

Sources ==
  PlainFoodSources \cup WrappedFoodSources \cup ViolatingFoodSources
    \cup RecipeSources \cup RawSources \cup {FailedSource}

Response(src) == [failed |-> src.class = "failed", text |-> src.text]

\* --------------------------------------------- the gateway, one call at a time

Tick ==
  /\ now < MaxClock
  /\ now' = now + 1
  /\ UNCHANGED <<gwVars, uiVars>>

\* the synchronous part of an operation: getAiClient, then the request
GwCall(op) ==
  /\ gwPc = "idle"
  /\ gwOp' = op
  /\ gwSrc' = FailedSource
  /\ aiClient' = ClientAfterGet(aiClient, apiKey)
  /\ IF GetClientThrows(aiClient, apiKey)
     THEN /\ gwPc' = "settled"
          /\ gwOut' = Rejected(IF op = "recipe" THEN RecipeError ELSE "API key")
     ELSE /\ gwPc' = "awaiting"
          /\ gwOut' = NoOutcome
  /\ UNCHANGED <<now, apiKey, uiVars>>

GwAnalyzeFoodImage == GwCall("image")
GwAnalyzeFoodText == GwCall("text")
GwGenerateJuiceRecipe == GwCall("recipe")

\* the request settles and the operation runs to its return or throw
GwSettle ==
  /\ gwPc = "awaiting"
  /\ \E src \in Sources :
       /\ gwSrc' = src
       /\ gwOut' = CASE gwOp = "image" -> analyzeFoodImage(Response(src))
                     [] gwOp = "text" -> analyzeFoodText(Response(src))
                     [] gwOp = "recipe" -> generateJuiceRecipe(Response(src), now)
  /\ gwPc' = "settled"
  /\ UNCHANGED <<now, apiKey, aiClient, gwOp, uiVars>>

\* the caller has taken the outcome
GwReturn ==
  /\ gwPc = "settled"
  /\ gwPc' = "idle"
  /\ gwOp' = "none"
  /\ gwSrc' = FailedSource
  /\ gwOut' = NoOutcome
  /\ UNCHANGED <<now, apiKey, aiClient, uiVars>>

\* --------------------------------------------------------- localStorage

KeySet == {"foodLogs", "recipes", "vitals"}

\* getItem gives null for a key that is not there
Missing == [present |-> FALSE, text |-> <<>>]
Stored(text) == [present |-> TRUE, text |-> text]

EmptyList == JArr(<<>>)
NotQueued == [set |-> FALSE, val |-> JUndef]
NoUpdates == [k \in KeySet |-> NotQueued]

\* one try block of App's load effect: the update queued for key afterwards
LoadKey(store, key, q) ==
  LET saved == store[key]
  IN IF saved.present /\ saved.text /= <<>>
     THEN LET parsed == JSONParse(saved.text)
          IN IF parsed.ok THEN [set |-> TRUE, val |-> parsed.val] ELSE q
     ELSE q

\* a persist effect: localStorage.setItem(key, JSON.stringify(value))
\* a persist effect that writes nothing
PersistKeySkipped(store, key, val) == store

PersistKey(store, key, val) == [store EXCEPT ![key] = Stored(Stringify(val))]

\* the persist effects whose dependency is in changed, in their order
PersistChanged(store, changed, f, r, vt) ==
  LET s1 == IF "foodLogs" \in changed THEN PersistKey(store, "foodLogs", f) ELSE store
      s2 == IF "recipes" \in changed THEN PersistKey(s1, "recipes", r) ELSE s1
  IN IF "vitals" \in changed THEN PersistKey(s2, "vitals", vt) ELSE s2

\* ------------------------------------------------------------- rendering

IsArray(x) == x.t = "array"

\* arr.filter / map / sort with a callback that reads a property of every
\* element throws unless arr is an array without null elements
ReadsThrow(arr) ==
  \/ ~IsArray(arr)
  \/ \E i \in 1..Len(arr.v) : Nullish(arr.v[i])

\* the entries a "today" filter keeps: the model's clock stays within a day
IsToday(item) == Get(item, "timestamp").t = "number"

\* total.toFixed throws when adding a macro made the total a string
MacroSumThrows(arr) ==
  \E i \in 1..Len(arr.v) :
    /\ IsToday(arr.v[i])
    /\ \E w \in {"sugar", "sodium", "carbs", "protein"} :
         Get(arr.v[i], w).t \in {"string", "object", "array"}

\* React throws on a plain object given as a child
ChildThrows(arr, words) ==
  \E i \in 1..Len(arr.v) : \E w \in words : Get(arr.v[i], w).t = "object"

\* a comparison that sorts the latest first
Before(a, b) ==
  LET ta == Get(a, "timestamp")
      tb == Get(b, "timestamp")
  IN ta.t = "number" /\ tb.t = "number" /\ ta.v < tb.v

\* (a, b) => a.timestamp - b.timestamp is positive; NaN counts as equal
After(a, b) ==
  LET ta == Get(a, "timestamp")
      tb == Get(b, "timestamp")
  IN ta.t = "number" /\ tb.t = "number" /\ ta.v > tb.v

RECURSIVE InsertSorted(_, _)
InsertSorted(sorted, x) ==
  IF sorted = <<>> THEN <<x>>
  ELSE IF After(Head(sorted), x) THEN <<x>> \o sorted
  ELSE <<Head(sorted)>> \o InsertSorted(Tail(sorted), x)

\* Array.prototype.sort by timestamp: stable
RECURSIVE SortByTimestamp(_, _)
SortByTimestamp(items, acc) ==
  IF items = <<>> THEN acc
  ELSE SortByTimestamp(Tail(items), InsertSorted(acc, Head(items)))

DashboardThrows(f, vt) ==
  \/ ReadsThrow(f)
  \/ MacroSumThrows(f)
  \/ ReadsThrow(vt)

FoodLensThrows(logs) ==
  \/ ReadsThrow(logs)
  \/ ChildThrows(JArr(SelectSeq(logs.v, IsToday)),
                 {"name", "calories", "sugar", "sodium"})

JuiceBarThrows(saved, gen, exp) ==
  \/ ReadsThrow(saved)
  \/ ChildThrows(saved, {"name", "description"})
  \/ \E i \in 1..Len(saved.v) :
       /\ JEq(exp, Get(saved.v[i], "id"))
       /\ ~IsArray(Get(saved.v[i], "ingredients"))
  \/ /\ gen.t /= "null"
     /\ \/ \E w \in {"ingredients", "instructions", "benefits"} :
             ~IsArray(Get(gen, w))
        \/ Get(gen, "name").t = "object"
        \/ Get(gen, "description").t = "object"

VitalsTrackerThrows(logs) == ReadsThrow(logs)

\* rendering view v: whether it throws, and vitals after the in-place sort
\* of Dashboard's and VitalsTracker's chartData
Render(v, f, r, vt, gen, exp) ==
  [crash |-> CASE v = "DASHBOARD" -> DashboardThrows(f, vt)
               [] v = "FOOD_LOG" -> FoodLensThrows(f)
               [] v = "JUICE_BAR" -> JuiceBarThrows(r, gen, exp)
               [] v = "VITALS" -> VitalsTrackerThrows(vt),
   vitals |-> IF v \in {"DASHBOARD", "VITALS"} /\ IsArray(vt)
              THEN JArr(SortByTimestamp(vt.v, <<>>))
              ELSE vt]

\* ------------------------------------------------------------ App: the store

\* the entries a run adds to the three collections together
MaxEntries == 2

AppViews == {"DASHBOARD", "FOOD_LOG", "JUICE_BAR", "VITALS"}

\* an addFoodLog that puts the item first
\* an addFoodLog that leaves the view where it is
ViewKept == view

\* addFoodLog's setView(AppView.DASHBOARD)
ViewAfterAddFoodLog == "DASHBOARD"

addFoodLogFirst(prev, item) == JArr(<<item>> \o prev.v)
addFoodLog(prev, item) == JArr(Append(prev.v, item))
addRecipe(prev, recipe) == JArr(Append(prev.v, recipe))
removeRecipe(prev, id) ==
  JArr(SelectSeq(prev.v, LAMBDA r : ~JEq(Get(r, "id"), id)))
addVitalLog(prev, log) == JArr(Append(prev.v, log))

Entries(list) == IF IsArray(list) THEN Len(list.v) ELSE 0
Room == Entries(foodLogs) + Entries(recipes) + Entries(vitals) < MaxEntries

NoSnapshot == [known |-> FALSE, foodLogs |-> EmptyList, recipes |-> EmptyList,
               vitals |-> EmptyList]
NoBootStorage == [k \in KeySet |-> Missing]
\* the handler that ran last: its name, the id it was given, and the
\* collection it worked on as it was before
OpOn(name, id, before) == [name |-> name, id |-> id, before |-> before]
OpWith(name, id) == OpOn(name, id, JUndef)
Op(name) == OpOn(name, JUndef, JUndef)
NoOp == Op("none")

\* a user action ends the part of the session the startup claims are about
UserActed ==
  /\ fresh' = FALSE
  /\ prevEnd' = NoSnapshot
  /\ bootStorage' = NoBootStorage

\* the state of a JuiceBar, a VitalsTracker, a FoodLens that has just mounted
JuiceBarMounts ==
  /\ jbLoading' = FALSE
  /\ jbError' = "null"
  /\ generatedRecipe' = JNull
  /\ expandedId' = JNull
  /\ jbPending' = "none"

\* an ErrorBoundary that does not record the fault
NoErrorState == FALSE

\* ErrorBoundary.getDerivedStateFromError: the hasError it returns
getDerivedStateFromError == TRUE

\* React commits new App state: the current view renders (a throw ends at
\* the ErrorBoundary and no effect of that render runs), then the persist
\* effects of the collections that were set
Commit(f, r, vt, v, gen, exp, changed) ==
  LET out == Render(v, f, r, vt, gen, exp)
  IN /\ foodLogs' = f
     /\ recipes' = r
     /\ view' = v
     /\ IF out.crash
        THEN /\ appPc' = "crashed"
             /\ hasError' = getDerivedStateFromError
             /\ vitals' = vt
             /\ storage' = storage
        ELSE /\ appPc' = "running"
             /\ hasError' = FALSE
             /\ vitals' = out.vitals
             /\ storage' = PersistChanged(storage, changed, f, r, out.vitals)

\* ----- startup: root.render(<StrictMode><ErrorBoundary><App/>...)

\* the first render: useState's initial values, Dashboard on empty lists
MountApp ==
  /\ appPc = "boot"
  /\ appPc' = "effects"
  /\ effStep' = 1
  /\ queued' = NoUpdates
  /\ foodLogs' = EmptyList
  /\ recipes' = EmptyList
  /\ vitals' = EmptyList
  /\ view' = "DASHBOARD"
  /\ hasError' = FALSE
  /\ lastOp' = Op("mount")
  /\ UNCHANGED <<now, gwVars, storage, strictDev, jbVars, vtType, ghostVars,
                 lensVars>>

\* the mount effects in their order: load, persist foodLogs, persist
\* recipes, persist vitals; a development build runs the four a second time
EffectsPerPass == 4
LastEffStep == IF strictDev THEN 2 * EffectsPerPass ELSE EffectsPerPass
EffIndex == ((effStep - 1) % EffectsPerPass) + 1

AfterEffect ==
  IF effStep = LastEffStep
  THEN appPc' = "flush" /\ effStep' = 0
  ELSE appPc' = appPc /\ effStep' = effStep + 1

LoadEffect ==
  /\ appPc = "effects"
  /\ EffIndex = 1
  /\ queued' = [k \in KeySet |-> LoadKey(storage, k, queued[k])]
  /\ AfterEffect
  /\ lastOp' = Op("loadEffect")
  /\ UNCHANGED <<now, gwVars, storage, strictDev, foodLogs, recipes, vitals,
                 view, hasError, jbVars, vtType, ghostVars, lensVars>>

\* the closure of the mount render holds the initial, empty collections
PersistEffect ==
  /\ appPc = "effects"
  /\ EffIndex > 1
  /\ storage' = CASE EffIndex = 2 -> PersistKey(storage, "foodLogs", foodLogs)
                  [] EffIndex = 3 -> PersistKey(storage, "recipes", recipes)
                  [] EffIndex = 4 -> PersistKey(storage, "vitals", vitals)
  /\ AfterEffect
  /\ lastOp' = Op("persistEffect")
  /\ UNCHANGED <<now, gwVars, strictDev, queued, foodLogs, recipes, vitals,
                 view, hasError, jbVars, vtType, ghostVars, lensVars>>

Pick(key, cur) == IF queued[key].set THEN queued[key].val ELSE cur

\* the queued updates are applied and App renders again
FlushUpdates ==
  /\ appPc = "flush"
  /\ Commit(Pick("foodLogs", foodLogs), Pick("recipes", recipes),
            Pick("vitals", vitals), view, JNull, JNull,
            {k \in KeySet : queued[k].set})
  /\ queued' = NoUpdates
  /\ lastOp' = Op("startup")
  /\ UNCHANGED <<now, gwVars, strictDev, effStep, jbVars, vtType, ghostVars,
                 lensVars>>

\* ----- the views

\* track.stop() on every track of a stream (0: null, nothing to stop)
stopTracks(strs, s) == IF s = 0 THEN strs ELSE [strs EXCEPT ![s] = "stopped"]

\* the async functions of a FoodLens that has unmounted run on; their
\* setState calls do nothing
Orphaned(os) == [i \in 1..Len(os) |-> [os[i] EXCEPT !.alive = FALSE]]

\* FoodLens unmounts: the cleanup effect stops the stream held in state;
\* a FoodLens that mounts later starts from useState's initial values
LensUnmounts ==
  /\ mode' = "view"
  /\ loading' = FALSE
  /\ error' = "null"
  /\ query' = <<>>
  /\ stream' = 0
  /\ streams' = stopTracks(streams, stream)
  /\ ops' = Orphaned(ops)

\* a click in the navigation: setView(v); the view that was shown unmounts
\* and its state is gone, the new one mounts with its initial state.  The
\* scan overlay (fixed inset-0 z-50) lies over the navigation (z-20, z-30)
Navigate(v) ==
  /\ appPc = "running"
  /\ v \in AppViews
  /\ v /= view
  /\ mode /= "scan"
  /\ Commit(foodLogs, recipes, vitals, v, JNull, JNull, {})
  /\ JuiceBarMounts
  /\ vtType' = "bp"
  /\ UserActed
  /\ LensUnmounts
  /\ lastOp' = Op("navigate")
  /\ UNCHANGED <<now, gwVars, strictDev, effStep, queued>>

\* the FoodItem captureAndAnalyze (with a thumbnail) and handleTextSearch
\* (without) build from a result of the gateway
FoodItemOf(result, clock, withImage) ==
  LET macros == Get(result, "macros")
      base == <<Prop("id", JStr(NumToText(clock)))>>
                \o macros.v
                \o <<Prop("name", Get(result, "name")),
                     Prop("timestamp", JNum(clock)),
                     Prop("type", JStr(<<"meal">>))>>
  IN JObj(IF withImage THEN Append(base, Prop("image", JStr(<<"thumbnail">>)))
          ELSE base)

\* what the endpoint answers a food request with, in the store's runs
StoreFoodSources ==
  LET obj == FoodObject(ExampleName, ExampleMacros)
  IN {Source("food", <<>>, Stringify(obj), <<>>, ExampleName, ExampleMacros),
      Source("foodViolating", <<>>, Stringify(WithProp(obj, 6, JStr(<<"a">>))),
             <<>>, ExampleName, ExampleMacros)}

\* FoodLens hands a new item to App.addFoodLog: the item is appended and the
\* view goes back to the dashboard
StoreAddFoodLog ==
  /\ appPc = "running"
  /\ view = "FOOD_LOG"
  /\ Room
  /\ \E src \in StoreFoodSources :
       LET out == analyzeFoodText(Response(src))
       IN /\ out.kind = "resolve"
          /\ Commit(addFoodLog(foodLogs, FoodItemOf(out.val, now, FALSE)),
                    recipes, vitals, ViewAfterAddFoodLog, JNull, JNull,
                    {"foodLogs"})
  /\ UserActed
  /\ lastOp' = Op("addFoodLog")
  /\ UNCHANGED <<now, gwVars, strictDev, effStep, queued, jbVars, vtType,
                 lensVars>>

\* ----- JuiceBar

JuiceBarError ==
  "Could not generate recipe. Please check your connection or API settings."

\* what the health conditions textarea may hold
HealthConditions == {<<>>, <<Ws>>, <<"a">>}

\* a click on "Generate Healing Recipe" with healthConditions in the textarea
JuiceGenerate(healthConditions) ==
  /\ appPc = "running"
  /\ view = "JUICE_BAR"
  /\ ~jbLoading
  /\ healthConditions \in HealthConditions
  /\ IF Trim(healthConditions) = <<>>
     THEN UNCHANGED <<jbVars, aiClient>>
     ELSE /\ jbLoading' = TRUE
          /\ jbError' = "null"
          /\ jbPending' = IF GetClientThrows(aiClient, apiKey)
                          THEN "rejected" ELSE "request"
          /\ aiClient' = ClientAfterGet(aiClient, apiKey)
          /\ UNCHANGED <<generatedRecipe, expandedId>>
  /\ UserActed
  /\ lastOp' = Op(IF Trim(healthConditions) = <<>> THEN "generateBlank"
                  ELSE "generate")
  /\ UNCHANGED <<now, apiKey, gwCallVars, appVars, vtType, lensVars>>

\* what the endpoint answers a recipe request with, in the store's runs
StoreRecipeSources ==
  LET obj == RecipeObject(ExampleName, ExampleMacros)
  IN {Source("recipe", <<>>, Stringify(obj), <<>>, ExampleName, ExampleMacros),
      Source("recipeViolating", <<>>, Stringify(WithoutProp(obj, 3)), <<>>,
             ExampleName, ExampleMacros),
      FailedSource}

\* generateJuiceRecipe settles and handleGenerate runs to its end; JuiceBar
\* renders with the new state
JuiceSettle ==
  /\ appPc = "running"
  /\ view = "JUICE_BAR"
  /\ jbPending /= "none"
  /\ \E src \in StoreRecipeSources :
       LET out == IF jbPending = "rejected" THEN Rejected(RecipeError)
                  ELSE generateJuiceRecipe(Response(src), now)
           gen == IF out.kind = "resolve" THEN out.val ELSE generatedRecipe
       IN /\ generatedRecipe' = gen
          /\ jbError' = IF out.kind = "resolve" THEN jbError ELSE JuiceBarError
          /\ Commit(foodLogs, recipes, vitals, view, gen, expandedId, {})
  /\ jbLoading' = FALSE
  /\ jbPending' = "none"
  /\ UserActed
  /\ lastOp' = Op("generateSettled")
  /\ UNCHANGED <<now, gwVars, strictDev, effStep, queued, expandedId, vtType,
                 lensVars>>

\* a === b of two values the code compares: ids and null
StrictEq(a, b) == a.t \notin {"object", "array"} /\ JEq(a, b)

\* a save that keeps the generated recipe on show
GeneratedKeptAfterSave(gen) == gen

\* the save button's setGeneratedRecipe(null)
GeneratedAfterSave(gen) == JNull

\* the save button: onSaveRecipe(generatedRecipe); setGeneratedRecipe(null)
JuiceSave ==
  /\ appPc = "running"
  /\ view = "JUICE_BAR"
  /\ generatedRecipe.t /= "null"
  /\ Room
  /\ generatedRecipe' = GeneratedAfterSave(generatedRecipe)
  /\ Commit(foodLogs, addRecipe(recipes, generatedRecipe), vitals, view,
            GeneratedAfterSave(generatedRecipe), expandedId, {"recipes"})
  /\ UserActed
  /\ lastOp' = OpOn("saveRecipe", Get(generatedRecipe, "id"), recipes)
  /\ UNCHANGED <<now, gwVars, strictDev, effStep, queued, jbLoading, jbError,
                 expandedId, jbPending, vtType, lensVars>>

\* a click on the i-th saved recipe's card: toggleExpand(recipe.id)
ToggleExpand(i) ==
  /\ appPc = "running"
  /\ view = "JUICE_BAR"
  /\ i \in 1..Len(recipes.v)
  /\ LET id == Get(recipes.v[i], "id")
         exp == IF StrictEq(expandedId, id) THEN JNull ELSE id
     IN /\ expandedId' = exp
        /\ Commit(foodLogs, recipes, vitals, view, generatedRecipe, exp, {})
        /\ lastOp' = OpWith("toggleExpand", id)
  /\ UserActed
  /\ UNCHANGED <<now, gwVars, strictDev, effStep, queued, jbLoading, jbError,
                 generatedRecipe, jbPending, vtType, lensVars>>

\* "Remove Recipe" of the i-th saved recipe, shown while it is expanded:
\* onDeleteRecipe(recipe.id)
JuiceDelete(i) ==
  /\ appPc = "running"
  /\ view = "JUICE_BAR"
  /\ i \in 1..Len(recipes.v)
  /\ LET id == Get(recipes.v[i], "id")
     IN /\ StrictEq(expandedId, id)
        /\ Commit(foodLogs, removeRecipe(recipes, id), vitals, view,
                  generatedRecipe, expandedId, {"recipes"})
        /\ lastOp' = OpOn("removeRecipe", id, recipes)
  /\ UserActed
  /\ UNCHANGED <<now, gwVars, strictDev, effStep, queued, jbVars, vtType,
                 lensVars>>

\* ----- VitalsTracker

SetVitalType(t) ==
  /\ appPc = "running"
  /\ view = "VITALS"
  /\ t \in {"bp", "sugar"}
  /\ vtType' = t
  /\ UserActed
  /\ lastOp' = Op("setType")
  /\ UNCHANGED <<now, gwVars, appVars, jbVars, lensVars>>

\* Number(text) of what a number input holds: digits, or nothing
NumberOf(text) == JNum(TextToNum(text, 0))

\* a log that takes every field from its input, whatever the entry mode
VitalLogOfAllInputs(type, sys, dia, sugar, clock) ==
  JObj(<<Prop("id", JStr(NumToText(clock))),
         Prop("timestamp", JNum(clock)),
         Prop("systolic", NumberOf(sys)),
         Prop("diastolic", NumberOf(dia)),
         Prop("bloodSugar", NumberOf(sugar))>>)

VitalLogOf(type, sys, dia, sugar, clock) ==
  JObj(<<Prop("id", JStr(NumToText(clock))),
         Prop("timestamp", JNum(clock)),
         Prop("systolic", IF type = "bp" THEN NumberOf(sys) ELSE JUndef),
         Prop("diastolic", IF type = "bp" THEN NumberOf(dia) ELSE JUndef),
         Prop("bloodSugar", IF type = "sugar" THEN NumberOf(sugar) ELSE JUndef)>>)

\* what the user types into the number inputs; the inputs shown are required
Readings == {<<"1", "2", "0">>}

\* the "Save Log" form: handleSubmit, then App.addVitalLog
SubmitVital(sys, dia, sugar) ==
  /\ appPc = "running"
  /\ view = "VITALS"
  /\ Room
  /\ Commit(foodLogs, recipes,
            addVitalLog(vitals, VitalLogOf(vtType, sys, dia, sugar, now)),
            view, JNull, JNull, {"vitals"})
  /\ UserActed
  /\ lastOp' = Op("addVitalLog")
  /\ UNCHANGED <<now, gwVars, strictDev, effStep, queued, jbVars, vtType,
                 lensVars>>

\* ----- sessions

\* the page is loaded again: a fresh session on the same storage
Reload ==
  /\ appPc \in {"running", "crashed"}
  /\ appPc' = "boot"
  /\ effStep' = 0
  /\ queued' = NoUpdates
  /\ foodLogs' = EmptyList
  /\ recipes' = EmptyList
  /\ vitals' = EmptyList
  /\ view' = "DASHBOARD"
  /\ hasError' = FALSE
  /\ aiClient' = "null"
  /\ JuiceBarMounts
  /\ vtType' = "bp"
  /\ fresh' = TRUE
  /\ prevEnd' = [known |-> appPc = "running", foodLogs |-> foodLogs,
                 recipes |-> recipes, vitals |-> vitals]
  /\ bootStorage' = storage
  /\ lastOp' = Op("reload")
  /\ UNCHANGED <<now, apiKey, gwCallVars, storage, strictDev, lensVars>>

\* ------------------------------------------------------- specifications

ClockStarts == now = 1

GatewayIdle ==
  /\ aiClient = "null"
  /\ gwPc = "idle"
  /\ gwOp = "none"
  /\ gwSrc = FailedSource
  /\ gwOut = NoOutcome

\* App as a session finds it before index.tsx renders it
AppBoots ==
  /\ appPc = "boot"
  /\ effStep = 0
  /\ queued = NoUpdates
  /\ foodLogs = EmptyList
  /\ recipes = EmptyList
  /\ vitals = EmptyList
  /\ view = "DASHBOARD"
  /\ hasError = FALSE
  /\ jbLoading = FALSE
  /\ jbError = "null"
  /\ generatedRecipe = JNull
  /\ expandedId = JNull
  /\ jbPending = "none"
  /\ vtType = "bp"
  /\ fresh = TRUE
  /\ prevEnd = NoSnapshot
  /\ bootStorage = storage
  /\ lastOp = NoOp

\* no FoodLens is mounted and the camera has handed out no stream
LensIdle ==
  /\ mode = "view"
  /\ loading = FALSE
  /\ error = "null"
  /\ query = <<>>
  /\ stream = 0
  /\ streams = [s \in 1..MaxStreams |-> "none"]
  /\ ops = <<>>

\* the analysis gateway on its own, one call at a time
GatewayInit ==
  /\ ClockStarts
  /\ apiKey \in BOOLEAN
  /\ GatewayIdle
  /\ storage = NoBootStorage
  /\ strictDev = FALSE
  /\ AppBoots
  /\ LensIdle

GatewayNext ==
  \/ Tick
  \/ GwAnalyzeFoodImage
  \/ GwAnalyzeFoodText
  \/ GwGenerateJuiceRecipe
  \/ GwSettle
  \/ GwReturn

SpecGateway == GatewayInit /\ [][GatewayNext]_vars

\* what a session may find under a key: nothing, text that is no JSON, JSON
\* that is no array, an array that holds no entry
BootTexts == {<<"a">>, <<"{", "}">>, <<"null">>, <<"[", "null", "]">>}
BootValues == {Missing} \cup {Stored(t) : t \in BootTexts}

\* the store: sessions of App, built with an API key, on one localStorage
StoreInit ==
  /\ ClockStarts
  /\ apiKey = TRUE
  /\ GatewayIdle
  /\ storage \in [KeySet -> BootValues]
  /\ strictDev \in BOOLEAN
  /\ AppBoots
  /\ LensIdle

StoreNext ==
  \/ Tick
  \/ MountApp
  \/ LoadEffect
  \/ PersistEffect
  \/ FlushUpdates
  \/ \E v \in AppViews : Navigate(v)
  \/ StoreAddFoodLog
  \/ \E hc \in HealthConditions : JuiceGenerate(hc)
  \/ JuiceSettle
  \/ JuiceSave
  \/ \E i \in 1..MaxEntries : ToggleExpand(i)
  \/ \E i \in 1..MaxEntries : JuiceDelete(i)
  \/ \E t \in {"bp", "sugar"} : SetVitalType(t)
  \/ \E r \in Readings \X Readings \X Readings : SubmitVital(r[1], r[2], r[3])
  \/ Reload

SpecStore == StoreInit /\ [][StoreNext]_vars

\* --------------------------------------------------- the gateway's results

\* the record a food response's object stands for
ExpectedFood(src) ==
  JObj(<<Prop("name", JStr(src.name)),
         Prop("macros", JObj(MacroProps(src.macros)))>>)

FoodCallSettled == gwPc = "settled" /\ gwOp \in {"image", "text"}

\* C4: for every response text that is a schema-conforming JSON object,
\* analyzeFoodImage and analyzeFoodText return a record whose name and six
\* macros equal the fields of the response
C4_ConformingObjectReturned ==
  (FoodCallSettled /\ gwSrc.class = "food" /\ gwSrc.pre = <<>> /\ gwSrc.suf = <<>>)
    => (gwOut.kind = "resolve" /\ JEq(gwOut.val, ExpectedFood(gwSrc)))

\* C5: for every response text that holds one schema-conforming object
\* inside code fences and/or between prose, the operation succeeds with
\* exactly that object's fields
C5_WrappedObjectRecovered ==
  (FoodCallSettled /\ gwSrc.class = "food"
     /\ (gwSrc.pre /= <<>> \/ gwSrc.suf /= <<>>))
    => (gwOut.kind = "resolve" /\ JEq(gwOut.val, ExpectedFood(gwSrc)))

\* no "{" with a "}" after it
NoBraceSpan(text) ==
  LET firstOpen == IndexOf(text, "{")
  IN firstOpen = 0 \/ LastIndexOf(text, "}") < firstOpen

\* C6: for every response text in which no { ... } span is found, the three
\* operations reject; none returns a record with undefined fields
C6_NoObjectRejected ==
  (gwPc = "settled" /\ gwSrc.class = "raw" /\ NoBraceSpan(gwSrc.text))
    => gwOut.kind = "reject"

\* C7: for every response that parses as an object but violates the food
\* schema, analyzeFoodImage and analyzeFoodText reject; they return no record
C7_SchemaViolationRejected ==
  (FoodCallSettled /\ gwSrc.class = "foodViolating") => gwOut.kind = "reject"

\* a recipe response that is a failure: the request was rejected, the body
\* is empty, the text cannot be parsed, or a required field is missing
RecipeFailure(src) ==
  \/ src.class \in {"failed", "recipeViolating"}
  \/ /\ src.class = "raw"
     /\ \/ cleanJson(src.text) = <<>>
        \/ ~JSONParse(cleanJson(src.text)).ok

\* C18: every failure of generateJuiceRecipe, a missing credential too,
\* is a rejection with the one fixed error
C18_RecipeFailuresUniform ==
  (gwPc = "settled" /\ gwOp = "recipe" /\ (~apiKey \/ RecipeFailure(gwSrc)))
    => gwOut = Rejected(RecipeError)

\* C20: without an API key every call of the three operations rejects as it
\* does on an endpoint error, from inside the operation and with no request
\* sent; the client is built at most once, with a key, and then kept
C20_MissingKeyFails ==
  /\ [](~apiKey
         => /\ aiClient = "null"
            /\ gwPc /= "awaiting"
            /\ gwPc = "settled"
                 => /\ gwOut.kind = "reject"
                    /\ gwOut.kind = analyzeFoodImage(Response(FailedSource)).kind
                    /\ gwOp = "recipe"
                         => gwOut = generateJuiceRecipe(Response(FailedSource),
                                                       now))
  /\ [][/\ aiClient = "client" => aiClient' = "client"
        /\ aiClient' /= aiClient => (aiClient = "null" /\ apiKey)]_vars

C20_Witness ==
  /\ ~apiKey
  /\ gwPc = "settled"
  /\ gwOp = "recipe"
  /\ gwOut = Rejected(RecipeError)
  /\ aiClient = "null"

\* ------------------------------------------------------ the store's results

\* a value without the properties whose value is undefined
RECURSIVE Defined(_)
Defined(val) ==
  CASE val.t = "array" -> JArr([i \in 1..Len(val.v) |-> Defined(val.v[i])])
    [] val.t = "object" ->
         LET kept == SelectSeq(val.v, LAMBDA p : p.v.t /= "undefined")
         IN JObj([i \in 1..Len(kept) |->
                    [k |-> kept[i].k, v |-> Defined(kept[i].v)]])
    [] OTHER -> val

\* equal collections: an absent property and an undefined one are the same
SameData(a, b) == JEq(Defined(a), Defined(b))

StartupDone == fresh /\ appPc \in {"running", "crashed"}

\* C8: when a session ends with a collection equal to C, persisted, and a
\* fresh session starts on the same storage, each of foodLogs, recipes and
\* vitals equals C after startup, however the startup effects run
C8_RoundTrip ==
  (StartupDone /\ prevEnd.known)
    => /\ SameData(foodLogs, prevEnd.foodLogs)
       /\ SameData(recipes, prevEnd.recipes)
       /\ SameData(vitals, prevEnd.vitals)

\* an entry of a collection is an object
IsEntryList(val) ==
  IsArray(val) /\ \A i \in 1..Len(val.v) : val.v[i].t = "object"

\* a stored value that is missing, is no JSON, or is no array of entries
Corrupted(saved) ==
  \/ ~saved.present
  \/ ~JSONParse(saved.text).ok
  \/ ~IsEntryList(JSONParse(saved.text).val)

Collection(key) ==
  CASE key = "foodLogs" -> foodLogs
    [] key = "recipes" -> recipes
    [] key = "vitals" -> vitals

\* C9: after startup the application has not crashed, and every collection
\* whose stored value was missing or corrupted is the empty list
C9_CorruptedStartsEmpty ==
  StartupDone
    => /\ appPc /= "crashed"
       /\ ~hasError
       /\ \A k \in KeySet :
            Corrupted(bootStorage[k]) => JEq(Collection(k), EmptyList)

RemoveAt(items, i) == SubSeq(items, 1, i - 1) \o SubSeq(items, i + 1, Len(items))

\* the entries of list that have the id
WithId(list, id) == {i \in 1..Len(list.v) : StrictEq(Get(list.v[i], "id"), id)}

\* C10: removeRecipe(id) leaves the recipes as they were but for the one
\* entry with that id, the others unchanged and in their order; with no
\* such entry it leaves them unchanged
C10_RemoveExactlyOne ==
  lastOp.name = "removeRecipe"
    => IF WithId(lastOp.before, lastOp.id) = {}
       THEN JEq(recipes, lastOp.before)
       ELSE \E i \in WithId(lastOp.before, lastOp.id) :
              JEq(recipes, JArr(RemoveAt(lastOp.before.v, i)))

\* the last entry of a collection, and the entries before it
LastEntry(list) == list.v[Len(list.v)]
Front(list) == JArr(SubSeq(list.v, 1, Len(list.v) - 1))

\* C11: saving the generated recipe appends it as one entry, the earlier
\* entries unchanged; and deleting by its id the recipe a save appended
\* leaves the recipes as they were before that save
C11_SaveThenDelete ==
  /\ lastOp.name = "saveRecipe"
       => /\ Len(recipes.v) = Len(lastOp.before.v) + 1
          /\ JEq(Front(recipes), lastOp.before)
          /\ StrictEq(Get(LastEntry(recipes), "id"), lastOp.id)
  /\ (/\ lastOp.name = "removeRecipe"
      /\ Len(lastOp.before.v) > 0
      /\ StrictEq(Get(LastEntry(lastOp.before), "id"), lastOp.id))
       => JEq(recipes, Front(lastOp.before))

\* C17: while the application runs, the recipes and the value stored under
\* 'recipes' change only in a save, which appends the generated recipe and
\* clears it, or in a delete by id; generating a recipe, with or without
\* success, changes neither
C17_RecipesChangeOnlyBySaveOrDelete ==
  [][(/\ appPc = "running"
      /\ appPc' \in {"running", "crashed"}
      /\ (recipes' /= recipes \/ storage'["recipes"] /= storage["recipes"]))
       => \/ /\ lastOp'.name = "saveRecipe"
             /\ generatedRecipe.t /= "null"
             /\ recipes' = addRecipe(recipes, generatedRecipe)
             /\ generatedRecipe' = JNull
          \/ /\ lastOp'.name = "removeRecipe"
             /\ recipes' = removeRecipe(recipes, lastOp'.id)]_vars

C17_Witness ==
  /\ lastOp.name = "generateSettled"
  /\ generatedRecipe.t /= "null"
  /\ appPc = "running"
  /\ Entries(recipes) = 1
  /\ storage["recipes"] = Stored(Stringify(recipes))

\* the handler that changes a collection, and the collection's key
MutationKey ==
  [addFoodLog |-> "foodLogs", saveRecipe |-> "recipes",
   removeRecipe |-> "recipes", addVitalLog |-> "vitals"]

\* C19: after addFoodLog, addRecipe, removeRecipe or addVitalLog, once the
\* persist effect has run, the value stored under the collection's key is
\* the serialization of the whole collection, and the values under the
\* other two keys are as they were
C19_MutationPersisted ==
  [][(lastOp'.name \in DOMAIN MutationKey /\ appPc' = "running")
       => LET key == MutationKey[lastOp'.name]
              current == CASE key = "foodLogs" -> foodLogs'
                        [] key = "recipes" -> recipes'
                        [] key = "vitals" -> vitals'
          IN /\ storage'[key] = Stored(Stringify(current))
             /\ \A k \in KeySet \ {key} : storage'[k] = storage[k]]_vars

C19_Witness ==
  /\ lastOp.name = "addVitalLog"
  /\ appPc = "running"
  /\ Entries(vitals) = 1
  /\ Entries(recipes) = 1
  /\ storage["vitals"] = Stored(Stringify(vitals))
  /\ storage["recipes"] = Stored(Stringify(recipes))

\* C21: ErrorBoundary starts with hasError false and renders its children;
\* a rendering fault sets hasError, the failure screen is shown in place of
\* the children, and until the page is reloaded hasError stays set and the
\* children are not rendered again
C21_ErrorBoundaryAbsorbing ==
  /\ appPc = "boot" => ~hasError
  /\ [](hasError <=> appPc = "crashed")
  /\ [][hasError
         => \/ lastOp'.name = "reload" /\ ~hasError' /\ appPc' = "boot"
            \/ /\ hasError'
               /\ appPc' = "crashed"
               /\ UNCHANGED <<foodLogs, recipes, vitals, view, storage,
                              jbVars, vtType, lastOp>>]_vars

C21_Witness ==
  /\ hasError
  /\ appPc = "crashed"
  /\ lastOp.name = "addFoodLog"

\* after is before with one entry appended at the end, or before itself
AppendedOrSame(before, after) ==
  \/ after = before
  \/ /\ IsArray(before)
     /\ IsArray(after)
     /\ Len(after.v) = Len(before.v) + 1
     /\ SubSeq(after.v, 1, Len(before.v)) = before.v

\* C24: while the application runs, every change of foodLogs and of vitals,
\* by an operation or by rendering a view, appends one entry at the end:
\* the entries there were stay, unmodified and in their order
C24_AppendOnly ==
  [][(appPc = "running" /\ appPc' \in {"running", "crashed"})
       => /\ AppendedOrSame(foodLogs, foodLogs')
          /\ AppendedOrSame(vitals, vitals')]_vars

C24_Witness ==
  /\ lastOp.name = "addVitalLog"
  /\ appPc = "running"
  /\ Entries(vitals) = 2
  /\ Get(vitals.v[1], "timestamp") /= Get(vitals.v[2], "timestamp")

IsSet(entry, field) == Get(entry, field).t = "number"
IsUnset(entry, field) == Get(entry, field) = JUndef

BpShape(entry) ==
  /\ IsSet(entry, "systolic")
  /\ IsSet(entry, "diastolic")
  /\ IsUnset(entry, "bloodSugar")

SugarShape(entry) ==
  /\ IsSet(entry, "bloodSugar")
  /\ IsUnset(entry, "systolic")
  /\ IsUnset(entry, "diastolic")

\* C25: the log handleSubmit creates has the blood-pressure shape in entry
\* mode 'bp' and the blood-sugar shape in entry mode 'sugar', never neither
\* and never a mix, whatever the inputs of the hidden mode still hold
C25_VitalLogShape ==
  lastOp.name = "addVitalLog"
    => /\ IsArray(vitals)
       /\ Entries(vitals) > 0
       /\ LET entry == LastEntry(vitals)
          IN /\ vtType = "bp" => BpShape(entry)
             /\ vtType = "sugar" => SugarShape(entry)

C25_Witness ==
  /\ lastOp.name = "addVitalLog"
  /\ vtType = "sugar"
  /\ Entries(vitals) = 2
  /\ BpShape(vitals.v[1])
  /\ SugarShape(vitals.v[2])

\* the session found a valid, non-empty collection stored under key
StartedWithData(key) ==
  /\ fresh
  /\ ~Corrupted(bootStorage[key])
  /\ Entries(JSONParse(bootStorage[key].text).val) > 0

\* C27: in a session that found a valid non-empty collection under a key,
\* as long as the user has not acted, the value stored under that key is
\* never the empty collection
C27_StartupKeepsStoredData ==
  \A k \in KeySet :
    StartedWithData(k) => storage[k] /= Stored(Stringify(EmptyList))

DistinctIds(list) ==
  IsEntryList(list)
    => \A i, j \in 1..Len(list.v) :
         i /= j => ~StrictEq(Get(list.v[i], "id"), Get(list.v[j], "id"))

\* C28: within each of foodLogs, recipes and vitals no two entries have the
\* same id, the ids being the text of the clock read when the entry is made
C28_DistinctIds ==
  /\ DistinctIds(foodLogs)
  /\ DistinctIds(recipes)
  /\ DistinctIds(vitals)

\* C29: addFoodLog sets the view to DASHBOARD and changes neither recipes
\* nor vitals; addRecipe and removeRecipe leave the view, foodLogs and
\* vitals unchanged; addVitalLog leaves the view, foodLogs and recipes
\* unchanged
C29_MutatorFrames ==
  [][now' = now
       => /\ lastOp'.name = "addFoodLog"
               => /\ view' = "DASHBOARD"
                  /\ recipes' = recipes
                  /\ vitals' = vitals
          /\ lastOp'.name \in {"saveRecipe", "removeRecipe"}
               => /\ view' = view
                  /\ foodLogs' = foodLogs
                  /\ vitals' = vitals
          /\ lastOp'.name = "addVitalLog"
               => /\ view' = view
                  /\ foodLogs' = foodLogs
                  /\ recipes' = recipes]_vars

\* addFoodLog has moved the view from the food log to the dashboard, with
\* a vital log and a saved recipe present, and each other mutator has run
C29_Witness ==
  /\ lastOp.name = "addFoodLog"
  /\ view = "DASHBOARD"
  /\ appPc = "running"
  /\ Entries(foodLogs) > 0
  /\ Entries(vitals) + Entries(recipes) > 0

\* ------------------------------------- FoodLens (the defensive component)

CameraError ==
  "Camera access was denied or is unavailable. Check your browser permissions."
NotReadyError == "Camera not ready. Please wait a moment."
\* a failure that shows no message
NoErrorShown == "null"
ImageAnalysisError ==
  "Analysis failed. Please check connection/API key or try text search."
TextAnalysisError == "Analysis failed. Please check connection or API key."

LensMounted == appPc = "running" /\ view = "FOOD_LOG"

\* a startCamera that asks for any video device at once
CameraOpAnyFirst == [kind |-> "camera", phase |-> "any", alive |-> TRUE,
                     held |-> 0, noClient |-> FALSE]

\* an async function suspended at its await: startCamera at one of its two
\* getUserMedia requests ("env": the rear camera, "any": the fallback), or
\* captureAndAnalyze / handleTextSearch at the gateway call.  alive: its
\* FoodLens is still mounted; held: the stream its closure holds;
\* noClient: getAiClient threw
CameraOp == [kind |-> "camera", phase |-> "env", alive |-> TRUE, held |-> 0,
             noClient |-> FALSE]
AnalysisOp(kind, held, noClient) ==
  [kind |-> kind, phase |-> "gateway", alive |-> TRUE, held |-> held,
   noClient |-> noClient]

\* a step of the capture flow that no result below is stated for
LensOp == Op("lens")

\* what the handlers of the capture flow are judged against
LensSnapshot ==
  [mode |-> mode, stream |-> stream, streams |-> streams, ops |-> ops,
   foodLogs |-> foodLogs, aiClient |-> aiClient, view |-> view]

LensFrame == UNCHANGED <<now, apiKey, gwCallVars, appVars, jbVars, vtType,
                         ghostVars>>

\* a click on "AI Scanner / Barcode" or on Retry, up to the first await
startCamera ==
  /\ LensMounted
  /\ mode /= "scan"
  /\ Len(ops) < MaxOps
  /\ loading' = TRUE
  /\ error' = "null"
  /\ ops' = Append(ops, CameraOp)
  /\ lastOp' = Op("startCamera")
  /\ LensFrame
  /\ UNCHANGED <<aiClient, mode, query, stream, streams>>

FreeStreams == {s \in 1..MaxStreams : streams[s] = "none"}

\* a getUserMedia request of startCamera settles and startCamera runs on to
\* its next await or its end; setStream makes the cleanup effect stop the
\* stream held before
CameraSettle(i, granted) ==
  /\ i \in 1..Len(ops)
  /\ ops[i].kind = "camera"
  /\ IF granted
     THEN /\ FreeStreams /= {}
          /\ LET s == Min(FreeStreams)
             IN IF ops[i].alive
                THEN /\ streams' = [stopTracks(streams, stream) EXCEPT ![s] = "live"]
                     /\ stream' = s
                     /\ mode' = "scan"
                     /\ loading' = FALSE
                     /\ error' = error
                ELSE /\ streams' = [streams EXCEPT ![s] = "live"]
                     /\ UNCHANGED <<stream, mode, loading, error>>
          /\ ops' = RemoveAt(ops, i)
     ELSE IF ops[i].phase = "env"
     THEN /\ ops' = [ops EXCEPT ![i].phase = "any"]
          /\ UNCHANGED <<streams, stream, mode, loading, error>>
     ELSE /\ ops' = RemoveAt(ops, i)
          /\ IF ops[i].alive
             THEN /\ error' = CameraError
                  /\ mode' = "view"
                  /\ loading' = FALSE
             ELSE UNCHANGED <<error, mode, loading>>
          /\ UNCHANGED <<streams, stream>>
  /\ lastOp' = OpWith("cameraSettled",
                      [i |-> i, phase |-> ops[i].phase, granted |-> granted,
                       alive |-> ops[i].alive, pending |-> Len(ops),
                       got |-> IF granted THEN Min(FreeStreams) ELSE 0])
  /\ LensFrame
  /\ UNCHANGED <<aiClient, query>>

\* the X of the scan overlay: stopCamera(); setMode('view')
closeCameraMode ==
  /\ LensMounted
  /\ mode = "scan"
  /\ streams' = stopTracks(streams, stream)
  /\ stream' = 0
  /\ mode' = "view"
  /\ lastOp' = LensOp
  /\ LensFrame
  /\ UNCHANGED <<aiClient, loading, error, query, ops>>

\* the "Text Search" button and the X of the text form
OpenTextSearch ==
  /\ LensMounted
  /\ mode = "view"
  /\ mode' = "text"
  /\ lastOp' = LensOp
  /\ LensFrame
  /\ UNCHANGED <<aiClient, loading, error, query, stream, streams, ops>>

CloseTextSearch ==
  /\ LensMounted
  /\ mode = "text"
  /\ mode' = "view"
  /\ lastOp' = LensOp
  /\ LensFrame
  /\ UNCHANGED <<aiClient, loading, error, query, stream, streams, ops>>

\* typing into the text form
Queries == {<<>>, <<Ws>>, <<"a">>}

SetQuery(q) ==
  /\ LensMounted
  /\ mode = "text"
  /\ q \in Queries
  /\ q /= query
  /\ query' = q
  /\ lastOp' = LensOp
  /\ LensFrame
  /\ UNCHANGED <<aiClient, mode, loading, error, stream, streams, ops>>

\* the "Analyze & Log" form (its button is disabled while loading or with
\* an empty query), up to the await
handleTextSearch ==
  /\ LensMounted
  /\ mode = "text"
  /\ ~loading
  /\ query /= <<>>
  /\ IF Trim(query) = <<>>
     THEN UNCHANGED <<aiClient, loading, error, ops>>
     ELSE /\ Len(ops) < MaxOps
          /\ loading' = TRUE
          /\ error' = "null"
          /\ aiClient' = ClientAfterGet(aiClient, apiKey)
          /\ ops' = Append(ops, AnalysisOp("text", 0,
                                           GetClientThrows(aiClient, apiKey)))
  /\ lastOp' = OpWith("handleTextSearch", JStr(query))
  /\ LensFrame
  /\ UNCHANGED <<mode, query, stream, streams>>

\* what the video element reports: no frame yet, or a frame's size
VideoSizes == {0, 640}

\* a readiness check that looks at the width alone
VideoReadyWidthOnly(vw, vh) == ~(vw = 0)

VideoReady(vw, vh) == ~(vw = 0 \/ vh = 0)

\* the capture button of the scan overlay (disabled while loading), up to
\* the await; vw, vh: video.videoWidth, video.videoHeight
captureAndAnalyze(vw, vh) ==
  /\ LensMounted
  /\ mode = "scan"
  /\ ~loading
  /\ IF VideoReady(vw, vh)
     THEN /\ Len(ops) < MaxOps
          /\ loading' = TRUE
          /\ error' = error
          /\ aiClient' = ClientAfterGet(aiClient, apiKey)
          /\ ops' = Append(ops, AnalysisOp("image", stream,
                                           GetClientThrows(aiClient, apiKey)))
     ELSE /\ error' = NotReadyError
          /\ loading' = FALSE
          /\ UNCHANGED <<aiClient, ops>>
  /\ lastOp' = OpOn("captureAndAnalyze", [w |-> vw, h |-> vh], LensSnapshot)
  /\ LensFrame
  /\ UNCHANGED <<mode, query, stream, streams>>

\* what the endpoint answers a food request with, in the capture flow's runs
LensFoodSources ==
  {Source("food", <<>>, Stringify(FoodObject(ExampleName, ExampleMacros)),
          <<>>, ExampleName, ExampleMacros),
   FailedSource}

\* the food logs an earlier session left: one item logged by a scan
PriorFoodLogs ==
  JArr(<<FoodItemOf(analyzeFoodText(Response(
                      Source("food", <<>>,
                             Stringify(FoodObject(ExampleName, ExampleMacros)),
                             <<>>, ExampleName, ExampleMacros))).val,
                    1, TRUE)>>)

\* the gateway call of captureAndAnalyze or handleTextSearch settles and
\* the function runs to its end.  On success App.addFoodLog appends the item
\* and shows the dashboard, so a mounted FoodLens unmounts, and
\* captureAndAnalyze's closeCameraMode stops the stream its closure holds
AnalysisSettle(i, src) ==
  /\ i \in 1..Len(ops)
  /\ ops[i].kind \in {"image", "text"}
  /\ src \in LensFoodSources
  /\ LET op == ops[i]
         out == IF op.noClient THEN Rejected("API key")
                ELSE IF op.kind = "image" THEN analyzeFoodImage(Response(src))
                ELSE analyzeFoodText(Response(src))
     IN /\ IF out.kind = "resolve"
           THEN /\ Entries(foodLogs) < Entries(PriorFoodLogs) + MaxLensLogs
                /\ appPc = "running"
                /\ Commit(addFoodLog(foodLogs,
                                     FoodItemOf(out.val, now, op.kind = "image")),
                          recipes, vitals, ViewAfterAddFoodLog, JNull, JNull,
                    {"foodLogs"})
                /\ JuiceBarMounts
                /\ vtType' = "bp"
                /\ UserActed
                /\ mode' = "view"
                /\ loading' = FALSE
                /\ error' = "null"
                /\ query' = <<>>
                /\ stream' = 0
                /\ streams' = stopTracks(stopTracks(streams, op.held), stream)
                /\ ops' = Orphaned(RemoveAt(ops, i))
                /\ UNCHANGED <<strictDev, effStep, queued>>
           ELSE /\ ops' = RemoveAt(ops, i)
                /\ IF op.alive
                   THEN /\ error' = IF op.kind = "image" THEN ImageAnalysisError
                                    ELSE TextAnalysisError
                        /\ loading' = FALSE
                   ELSE UNCHANGED <<error, loading>>
                /\ UNCHANGED <<appVars, jbVars, vtType, ghostVars, mode, query,
                               stream, streams>>
        /\ lastOp' = OpOn("analysisSettled",
                          [kind |-> op.kind, alive |-> op.alive,
                           held |-> op.held, out |-> out], LensSnapshot)
  /\ UNCHANGED <<now, gwVars>>

\* the capture flow: App after a startup on the storage an earlier session
\* left, built with an API key, and the FoodLens it mounts
LensInit ==
  /\ ClockStarts
  /\ apiKey = TRUE
  /\ GatewayIdle
  /\ storage = [k \in KeySet |->
                  Stored(Stringify(IF k = "foodLogs" THEN PriorFoodLogs
                                   ELSE EmptyList))]
  /\ strictDev = FALSE
  /\ appPc = "running"
  /\ effStep = 0
  /\ queued = NoUpdates
  /\ foodLogs = PriorFoodLogs
  /\ recipes = EmptyList
  /\ vitals = EmptyList
  /\ view = "DASHBOARD"
  /\ hasError = FALSE
  /\ jbLoading = FALSE
  /\ jbError = "null"
  /\ generatedRecipe = JNull
  /\ expandedId = JNull
  /\ jbPending = "none"
  /\ vtType = "bp"
  /\ fresh = TRUE
  /\ prevEnd = NoSnapshot
  /\ bootStorage = NoBootStorage
  /\ lastOp = Op("startup")
  /\ LensIdle

\* (the clock stands still during a run of the capture flow)
LensNext ==
  \/ \E v \in AppViews : Navigate(v)
  \/ startCamera
  \/ \E i \in 1..MaxOps : \E granted \in BOOLEAN : CameraSettle(i, granted)
  \/ closeCameraMode
  \/ OpenTextSearch
  \/ CloseTextSearch
  \/ \E q \in Queries : SetQuery(q)
  \/ handleTextSearch
  \/ \E vw \in VideoSizes : \E vh \in VideoSizes : captureAndAnalyze(vw, vh)
  \/ \E i \in 1..MaxOps : \E src \in LensFoodSources : AnalysisSettle(i, src)

SpecLens == LensInit /\ [][LensNext]_vars

\* ------------------- FoodLens of components/FoodLens.tsx (the earlier one)

LegacyCameraError == "Unable to access camera. Please use text entry."

\* this FoodLens has no cleanup effect: when it unmounts the stream it holds
\* stays as it is
LegacyUnmounts ==
  /\ mode' = "view"
  /\ loading' = FALSE
  /\ error' = "null"
  /\ query' = <<>>
  /\ stream' = 0
  /\ ops' = Orphaned(ops)

\* a click in the navigation (the scan overlay lies over it)
LegacyNavigate(v) ==
  /\ appPc = "running"
  /\ v \in AppViews
  /\ v /= view
  /\ mode /= "scan"
  /\ Commit(foodLogs, recipes, vitals, v, JNull, JNull, {})
  /\ JuiceBarMounts
  /\ vtType' = "bp"
  /\ UserActed
  /\ LegacyUnmounts
  /\ lastOp' = Op("navigate")
  /\ UNCHANGED <<now, gwVars, strictDev, effStep, queued, streams>>

\* a click on "AI Scanner / Barcode", up to the await: one request, for the
\* rear camera; loading is not touched
LegacyStartCamera ==
  /\ LensMounted
  /\ mode /= "scan"
  /\ Len(ops) < MaxOps
  /\ ops' = Append(ops, CameraOp)
  /\ lastOp' = Op("startCamera")
  /\ LensFrame
  /\ UNCHANGED <<aiClient, mode, loading, error, query, stream, streams>>

\* the getUserMedia request settles and startCamera runs to its end; the
\* stream held before is replaced, not stopped
LegacyCameraSettle(i, granted) ==
  /\ i \in 1..Len(ops)
  /\ ops[i].kind = "camera"
  /\ ops' = RemoveAt(ops, i)
  /\ IF granted
     THEN /\ FreeStreams /= {}
          /\ streams' = [streams EXCEPT ![Min(FreeStreams)] = "live"]
          /\ IF ops[i].alive
             THEN /\ stream' = Min(FreeStreams)
                  /\ mode' = "scan"
                  /\ error' = "null"
             ELSE UNCHANGED <<stream, mode, error>>
     ELSE /\ error' = IF ops[i].alive THEN LegacyCameraError ELSE error
          /\ UNCHANGED <<streams, stream, mode>>
  /\ lastOp' = Op("cameraSettled")
  /\ LensFrame
  /\ UNCHANGED <<aiClient, loading, query>>

\* stopCamera, from the X of the scan overlay
LegacyStopCamera ==
  /\ LensMounted
  /\ mode = "scan"
  /\ streams' = stopTracks(streams, stream)
  /\ stream' = 0
  /\ mode' = "view"
  /\ lastOp' = Op("stopCamera")
  /\ LensFrame
  /\ UNCHANGED <<aiClient, loading, error, query, ops>>

\* the capture button (disabled while loading), up to the await
LegacyCaptureAndAnalyze ==
  /\ LensMounted
  /\ mode = "scan"
  /\ ~loading
  /\ Len(ops) < MaxOps
  /\ loading' = TRUE
  /\ aiClient' = ClientAfterGet(aiClient, apiKey)
  /\ ops' = Append(ops, AnalysisOp("image", stream,
                                   GetClientThrows(aiClient, apiKey)))
  /\ lastOp' = Op("captureAndAnalyze")
  /\ LensFrame
  /\ UNCHANGED <<mode, error, query, stream, streams>>

\* the gateway call of captureAndAnalyze or handleTextSearch settles.  On
\* success App.addFoodLog appends the item and shows the dashboard, and
\* captureAndAnalyze's stopCamera stops the stream its closure holds; a
\* rejection leaves the function by its await: nothing after it runs
LegacyAnalysisSettle(i, src) ==
  /\ i \in 1..Len(ops)
  /\ ops[i].kind \in {"image", "text"}
  /\ src \in LensFoodSources
  /\ LET op == ops[i]
         out == IF op.noClient THEN Rejected("API key")
                ELSE IF op.kind = "image" THEN analyzeFoodImage(Response(src))
                ELSE analyzeFoodText(Response(src))
     IN /\ IF out.kind = "resolve"
           THEN /\ Entries(foodLogs) < Entries(PriorFoodLogs) + MaxLensLogs
                /\ appPc = "running"
                /\ Commit(addFoodLog(foodLogs,
                                     FoodItemOf(out.val, now, op.kind = "image")),
                          recipes, vitals, ViewAfterAddFoodLog, JNull, JNull,
                          {"foodLogs"})
                /\ JuiceBarMounts
                /\ vtType' = "bp"
                /\ UserActed
                /\ mode' = "view"
                /\ loading' = FALSE
                /\ error' = "null"
                /\ query' = <<>>
                /\ stream' = 0
                /\ streams' = stopTracks(streams, IF op.kind = "image"
                                                  THEN op.held ELSE 0)
                /\ ops' = Orphaned(RemoveAt(ops, i))
                /\ UNCHANGED <<strictDev, effStep, queued>>
           ELSE /\ ops' = RemoveAt(ops, i)
                /\ UNCHANGED <<appVars, jbVars, vtType, ghostVars, mode,
                               loading, error, query, stream, streams>>
        /\ lastOp' = OpWith("analysisSettled",
                            [kind |-> op.kind, alive |-> op.alive,
                             outcome |-> out.kind])
  /\ UNCHANGED <<now, gwVars>>

LegacyLensNext ==
  \/ \E v \in AppViews : LegacyNavigate(v)
  \/ LegacyStartCamera
  \/ \E i \in 1..MaxOps : \E granted \in BOOLEAN : LegacyCameraSettle(i, granted)
  \/ LegacyStopCamera
  \/ OpenTextSearch
  \/ CloseTextSearch
  \/ \E q \in Queries : SetQuery(q)
  \/ handleTextSearch
  \/ LegacyCaptureAndAnalyze
  \/ \E i \in 1..MaxOps : \E src \in LensFoodSources :
       LegacyAnalysisSettle(i, src)

SpecLegacyLens == LensInit /\ [][LegacyLensNext]_vars

\* ------------------------------- the two forms that send text to the gateway

\* FoodLens's text search and JuiceBar's recipe form, the camera left alone;
\* a recipe request stays in flight until JuiceBar unmounts
FormsNext ==
  \/ \E v \in AppViews : Navigate(v)
  \/ OpenTextSearch
  \/ CloseTextSearch
  \/ \E q \in Queries : SetQuery(q)
  \/ handleTextSearch
  \/ \E i \in 1..MaxOps : \E src \in LensFoodSources : AnalysisSettle(i, src)
  \/ \E hc \in HealthConditions : JuiceGenerate(hc)

SpecForms == LensInit /\ [][FormsNext]_vars

\* ------------------------------------------------- the capture flow's results

Live(s) == streams[s] = "live"

\* C1: whenever FoodLens is mounted and the scan UI is not shown, the stream
\* it holds has no live track
C1_NoLiveStreamOutsideScan ==
  (LensMounted /\ mode /= "scan") => (stream = 0 \/ ~Live(stream))

\* C2: once FoodLens is torn down and none of its async functions is still
\* running, every stream it acquired is stopped
C2_TornDownStreamsStopped ==
  (~LensMounted /\ ops = <<>>) => \A s \in 1..MaxStreams : ~Live(s)

CaptureNotReady ==
  /\ lastOp.name = "captureAndAnalyze"
  /\ (lastOp.id.w = 0 \/ lastOp.id.h = 0)

\* C3: captureAndAnalyze with videoWidth = 0 or videoHeight = 0 sets the
\* "Camera not ready" error and ends with loading false; it calls no gateway
\* operation, appends no FoodItem, and leaves mode and the stream as they were
C3_CaptureNotReady ==
  CaptureNotReady
    => /\ error = NotReadyError
       /\ loading = FALSE
       /\ ops = lastOp.before.ops
       /\ aiClient = lastOp.before.aiClient
       /\ JEq(foodLogs, lastOp.before.foodLogs)
       /\ mode = lastOp.before.mode
       /\ stream = lastOp.before.stream
       /\ streams = lastOp.before.streams

C3_Witness ==
  /\ CaptureNotReady
  /\ lastOp.id.w /= 0
  /\ error = NotReadyError
  /\ stream /= 0
  /\ Live(stream)

AnalysisSettled(kind) ==
  lastOp.name = "analysisSettled" /\ lastOp.id.kind = kind

MacroWords == {"calories", "protein", "carbs", "fat", "sugar", "sodium"}

\* C12: when the analyzeFoodText call of a handleTextSearch resolves with
\* {name, macros}, one FoodItem is appended at the end of foodLogs, its name
\* and six macros those of the result, the earlier entries are unchanged,
\* and the view is DASHBOARD
C12_TextSearchAppends ==
  (AnalysisSettled("text") /\ lastOp.id.out.kind = "resolve")
    => LET result == lastOp.id.out.val
           item == LastEntry(foodLogs)
       IN /\ Len(foodLogs.v) = Len(lastOp.before.foodLogs.v) + 1
          /\ JEq(Front(foodLogs), lastOp.before.foodLogs)
          /\ JEq(Get(item, "name"), Get(result, "name"))
          /\ \A w \in MacroWords :
               JEq(Get(item, w), Get(Get(result, "macros"), w))
          /\ view = "DASHBOARD"

C12_Witness ==
  /\ AnalysisSettled("text")
  /\ lastOp.id.out.kind = "resolve"
  /\ lastOp.id.alive
  /\ lastOp.before.view = "FOOD_LOG"
  /\ Len(lastOp.before.foodLogs.v) > 0
  /\ Len(foodLogs.v) = Len(lastOp.before.foodLogs.v) + 1
  /\ view = "DASHBOARD"

\* the gateway calls FoodLens started that have not settled
InFlight == {i \in 1..Len(ops) : ops[i].kind \in {"image", "text"}}

\* C13: at most one analysis call started from FoodLens is in flight, and
\* loading is true while a call of the mounted FoodLens is
C13_OneAnalysisInFlight ==
  /\ Cardinality(InFlight) <= 1
  /\ (\E i \in InFlight : ops[i].alive) => loading

\* C14: when the response of an image analysis arrives after the scan UI
\* was closed or the user left Food Lens, no FoodItem is appended and the
\* view stays as it is
C14_LateResponseIgnored ==
  (AnalysisSettled("image")
     /\ (~lastOp.id.alive \/ lastOp.before.mode /= "scan"))
    => /\ JEq(foodLogs, lastOp.before.foodLogs)
       /\ view = lastOp.before.view

CameraSettled == lastOp.name = "cameraSettled"

\* C15: startCamera asks for the rear camera first and for any video device
\* only after that request failed, and for nothing after that; in a
\* FoodLens that is still mounted, when both fail error is non-null, mode is
\* 'view' and loading is false, and when one succeeds mode is 'scan', the
\* stream it gave is held, and loading is false
C15_RearCameraFirst ==
  /\ lastOp.name = "startCamera" => ops[Len(ops)].phase = "env"
  /\ \A i \in 1..Len(ops) :
       ops[i].kind = "camera" => ops[i].phase \in {"env", "any"}
  /\ (CameraSettled /\ ~lastOp.id.granted /\ lastOp.id.phase = "env")
       => /\ Len(ops) = lastOp.id.pending
          /\ ops[lastOp.id.i].kind = "camera"
          /\ ops[lastOp.id.i].phase = "any"
  /\ (CameraSettled /\ ~lastOp.id.granted /\ lastOp.id.phase = "any")
       => /\ Len(ops) = lastOp.id.pending - 1
          /\ lastOp.id.alive
               => (error /= "null" /\ mode = "view" /\ loading = FALSE)
  /\ (CameraSettled /\ lastOp.id.granted)
       => /\ Len(ops) = lastOp.id.pending - 1
          /\ lastOp.id.alive
               => /\ mode = "scan"
                  /\ stream = lastOp.id.got
                  /\ Live(stream)
                  /\ loading = FALSE

C15_Witness ==
  /\ CameraSettled
  /\ lastOp.id.phase = "any"
  /\ lastOp.id.granted
  /\ lastOp.id.alive
  /\ mode = "scan"
  /\ stream = lastOp.id.got

\* C16: when the gateway call of captureAndAnalyze or handleTextSearch
\* fails in a FoodLens that is still mounted, no FoodItem is appended, error
\* is non-null, loading is false, and mode and the stream are as they were:
\* in 'scan' the stream is still held and live
C16_FailureKeepsUiOpen ==
  (lastOp.name = "analysisSettled" /\ lastOp.id.out.kind = "reject"
     /\ lastOp.id.alive)
    => /\ JEq(foodLogs, lastOp.before.foodLogs)
       /\ error /= "null"
       /\ loading = FALSE
       /\ mode = lastOp.before.mode
       /\ stream = lastOp.before.stream
       /\ streams = lastOp.before.streams
       /\ mode = "scan" => (stream /= 0 /\ Live(stream))

C16_Witness ==
  /\ AnalysisSettled("image")
  /\ lastOp.id.out.kind = "reject"
  /\ lastOp.id.alive
  /\ mode = "scan"
  /\ Live(stream)
  /\ error = ImageAnalysisError

LiveStreams == {s \in 1..MaxStreams : Live(s)}

\* C22: at most one stream the camera handed to FoodLens has live tracks
C22_OneLiveStream == Cardinality(LiveStreams) <= 1

\* C23: in the earlier FoodLens, once the scan UI is closed or the component
\* is unmounted no stream it acquired has live tracks
C23_LegacyNoStreamLeft ==
  (~LensMounted \/ mode /= "scan") => LiveStreams = {}

\* C26: in the earlier FoodLens, when the gateway call of a captureAndAnalyze
\* or handleTextSearch has settled, by resolving or by rejecting, and the
\* function has run on, loading is false
C26_LegacyLoadingCleared ==
  lastOp.name = "analysisSettled" => loading = FALSE

\* text that is empty or holds white space only
Blank(text) == \A i \in 1..Len(text) : text[i] = Ws

\* the step is a handleTextSearch on a blank query or a handleGenerate on
\* blank health conditions
BlankSubmission ==
  \/ lastOp'.name = "handleTextSearch" /\ Blank(lastOp'.id.v)
  \/ lastOp'.name = "generateBlank"

\* C30: a handleTextSearch on a blank query and a handleGenerate on blank
\* health conditions call no gateway operation and change no state: the
\* loading flags, the errors, the mode, the generated recipe, the
\* collections, the view and the storage are as they were
C30_BlankSubmissionNoEffect ==
  [][BlankSubmission
       => UNCHANGED <<aiClient, ops, jbPending, loading, error, mode, query,
                      jbLoading, jbError, generatedRecipe, expandedId,
                      foodLogs, recipes, vitals, view, storage, stream,
                      streams>>]_vars

\* a blank query was submitted with the error of a failed analysis on show
C30_Witness ==
  /\ lastOp.name = "handleTextSearch"
  /\ lastOp.id.v /= <<>>
  /\ Blank(lastOp.id.v)
  /\ LensMounted
  /\ mode = "text"
  /\ ~loading
  /\ error /= "null"
  /\ ops = <<>>

====
